---- MODULE Spec2Model ----
(***************************************************************************)
(* Property Management API: the property_data table behind the pool, the   *)
(* startup schema reconciler (config/checkSchema.js) and the HTTP handlers  *)
(* with the repository functions they call (controllers/propertyController *)
(* and models/propertyModel).  Every pool.query is one atomic database     *)
(* step; a handler that awaits two queries is two steps, so requests of    *)
(* different clients interleave between them.  Spec is the service after   *)
(* startup, SpecRecon the reconciler run in succession, SpecStartup the    *)
(* process from its start (reconciler and requests together), SpecBuild    *)
(* the UPDATE builder called directly.                                     *)
(***************************************************************************)
EXTENDS Integers, Sequences, FiniteSets, TLC

VARIABLES db, rec, cl, started, bq

vars == <<db, rec, cl, started, bq>>

(* ------------------------------ bounds -------------------------------- *)
\* number of reconciliation runs in succession
MaxRuns == 2
\* number of HTTP requests started in one behaviour
MaxRequests == 2
\* largest row identifier (in requests and drawn from the SERIAL sequence)
MaxId == 2
\* largest number of keys of an object handed to the query builder directly
MaxKeys == 2

NULL == "NULL"
NoColumns == << >>

(* ------------------------- config/checkSchema ------------------------- *)
requiredColumns ==
  << [column_name |-> "property_name", data_type |-> "VARCHAR"],
     [column_name |-> "address", data_type |-> "VARCHAR"],
     [column_name |-> "total_area_in_sqft", data_type |-> "NUMERIC"],
     [column_name |-> "price_in_cr", data_type |-> "NUMERIC"],
     [column_name |-> "listed_date", data_type |-> "DATE"],
     [column_name |-> "status", data_type |-> "VARCHAR"],
     [column_name |-> "total_earnings", data_type |-> "NUMERIC"] >>

BaselineNames == { requiredColumns[i].column_name : i \in DOMAIN requiredColumns }

\* CREATE TABLE property_data (id SERIAL PRIMARY KEY, property_name VARCHAR, ...)
createTableQuery ==
  [kind |-> "CREATE TABLE",
   columns |-> [c \in {"id"} \cup BaselineNames |->
                  IF c = "id" THEN "SERIAL"
                  ELSE requiredColumns[CHOOSE i \in DOMAIN requiredColumns :
                          requiredColumns[i].column_name = c].data_type ]]

\* SELECT EXISTS (SELECT FROM information_schema.tables WHERE table_name = ..)
tableCheckQuery == [kind |-> "TABLE EXISTS"]

\* SELECT column_name FROM information_schema.columns WHERE table_name = ..
columnNamesQuery == [kind |-> "COLUMN NAMES"]

\* a reconciler that removes the column instead of adding it
reconcilerAddColumnQuery_drop(column) ==
  [kind |-> "DROP COLUMN", column |-> column.column_name]

\* ALTER TABLE property_data ADD COLUMN ${column.column_name} ${column.data_type};
reconcilerAddColumnQuery(column) ==
  [kind |-> "ADD COLUMN", column |-> column.column_name, type |-> column.data_type]

(* ------------------- utils/propertyDataQueryBuilder ------------------- *)
\* a JavaScript object is a sequence of <<key, value>> pairs in key order
ObjectKeys(obj) == [i \in DOMAIN obj |-> obj[i][1]]
ObjectValues(obj) == [i \in DOMAIN obj |-> obj[i][2]]

buildSelectQuery(table, conditions) ==
  [kind |-> "SELECT", table |-> table,
   whereKeys |-> ObjectKeys(conditions),
   wherePlaceholders |-> [i \in DOMAIN conditions |-> i],
   values |-> ObjectValues(conditions)]

buildInsertQuery(table, data) ==
  [kind |-> "INSERT", table |-> table,
   keys |-> ObjectKeys(data),
   placeholders |-> [i \in DOMAIN data |-> i],
   values |-> ObjectValues(data)]

\* a builder that numbers the WHERE placeholders from 1 again
buildUpdateQuery_restart(table, data, conditions) ==
  [kind |-> "UPDATE", table |-> table,
   keys |-> ObjectKeys(data),
   placeholders |-> [i \in DOMAIN data |-> i],
   whereKeys |-> ObjectKeys(conditions),
   wherePlaceholders |-> [i \in DOMAIN conditions |-> i],
   values |-> ObjectValues(data) \o ObjectValues(conditions)]

buildUpdateQuery(table, data, conditions) ==
  [kind |-> "UPDATE", table |-> table,
   keys |-> ObjectKeys(data),
   placeholders |-> [i \in DOMAIN data |-> i],
   whereKeys |-> ObjectKeys(conditions),
   wherePlaceholders |-> [i \in DOMAIN conditions |-> Len(data) + i],
   values |-> ObjectValues(data) \o ObjectValues(conditions)]

buildDeleteQuery(table, conditions) ==
  [kind |-> "DELETE", table |-> table,
   whereKeys |-> ObjectKeys(conditions),
   wherePlaceholders |-> [i \in DOMAIN conditions |-> i],
   values |-> ObjectValues(conditions)]

(* ----------------------- utils/columnQueryBuilder --------------------- *)
validTypes == {"VARCHAR", "TEXT", "NUMERIC", "INTEGER", "BOOLEAN", "DATE", "TIMESTAMP"}

\* a type string used as the request wrote it
toUpperCase_asWritten(s) == s

\* String.prototype.toUpperCase on the type strings the requests carry
toUpperCase(s) ==
  CASE s = "varchar" -> "VARCHAR"
    [] s = "money" -> "MONEY"
    [] OTHER -> s

validateColumnType(columnType) == toUpperCase(columnType) \in validTypes

buildAddColumnQuery(columnName, columnType) ==
  [kind |-> "ADD COLUMN", column |-> columnName, type |-> toUpperCase(columnType)]

buildRenameColumnQuery(oldColumnName, newColumnName) ==
  [kind |-> "RENAME COLUMN", column |-> oldColumnName, newName |-> newColumnName]

buildDeleteColumnQuery(columnName) ==
  [kind |-> "DROP COLUMN", column |-> columnName]

buildGetColumnsQuery(table) == [kind |-> "COLUMNS", table |-> table]

(* ------------------- a direct caller of the builder ------------------- *)
\* bq: the arguments of a call of buildUpdateQuery and what it returned
NoQuery == [kind |-> "none"]
NoBuild == [data |-> << >>, conditions |-> << >>, query |-> NoQuery]

\* objects of at most MaxKeys distinct keys, in every key order
Objects(keys, values) ==
  { o \in UNION { [1..n -> keys \X values] : n \in 0..MaxKeys } :
      \A i, j \in DOMAIN o : i # j => o[i][1] # o[j][1] }

DataObjects == Objects({"a", "b", "c"}, {1, 2})
ConditionObjects == Objects({"id", "k"}, {5})

\* const { query, values } = buildUpdateQuery(table, data, conditions)
buildUpdate ==
  /\ bq.query = NoQuery
  /\ bq' = [bq EXCEPT !.query = buildUpdateQuery("t", bq.data, bq.conditions)]
  /\ UNCHANGED <<db, rec, cl, started>>

(* ---------------------------- the database ---------------------------- *)
\* db.exists: the table is there; db.columns: column name -> declared type;
\* db.rows: identifier -> (data column -> value); db.nextId: the value the
\* SERIAL sequence of id hands out next
ColNames(d) == DOMAIN d.columns
DataCols(cols) == cols \ {"id"}
RowOf(d, i) == [c \in ColNames(d) |-> IF c = "id" THEN i ELSE d.rows[i][c]]
AllRows(d) == { RowOf(d, i) : i \in DOMAIN d.rows }

Ok(d, out) == [db |-> d, ok |-> TRUE, err |-> "", out |-> out]
Err(d, e) == [db |-> d, ok |-> FALSE, err |-> e, out |-> {}]

SeqRange(s) == { s[i] : i \in DOMAIN s }

\* the value a statement binds to the k-th column it names
BoundValue(keys, placeholders, values, c) ==
  values[placeholders[CHOOSE k \in DOMAIN keys : keys[k] = c]]

\* a statement whose WHERE clause selects every row
Matched_all(d, q) == DOMAIN d.rows

Matched(d, q) ==
  { i \in DOMAIN d.rows :
      \A k \in DOMAIN q.whereKeys :
        RowOf(d, i)[q.whereKeys[k]] = q.values[q.wherePlaceholders[k]] }

\* data_type as information_schema reports a declared type
CatalogType(t) ==
  CASE t = "VARCHAR" -> "character varying"
    [] t = "SERIAL" -> "integer"
    [] t = "INTEGER" -> "integer"
    [] t = "NUMERIC" -> "numeric"
    [] t = "DATE" -> "date"
    [] t = "TEXT" -> "text"
    [] t = "BOOLEAN" -> "boolean"
    [] t = "TIMESTAMP" -> "timestamp without time zone"
    [] OTHER -> t

ExecSelect(d, q) ==
  IF ~d.exists THEN Err(d, "relation does not exist")
  ELSE IF ~(SeqRange(q.whereKeys) \subseteq ColNames(d))
  THEN Err(d, "column does not exist")
  ELSE Ok(d, { RowOf(d, i) : i \in Matched(d, q) })

ExecInsert(d, q) ==
  LET hasId == "id" \in SeqRange(q.keys)
      id == IF hasId THEN BoundValue(q.keys, q.placeholders, q.values, "id")
            ELSE d.nextId
      d1 == IF hasId THEN d ELSE [d EXCEPT !.nextId = @ + 1]
      row == [c \in DataCols(ColNames(d)) |->
                IF c \in SeqRange(q.keys)
                THEN BoundValue(q.keys, q.placeholders, q.values, c) ELSE NULL]
      d2 == [d1 EXCEPT !.rows = [i \in DOMAIN d.rows \cup {id} |->
                                   IF i = id THEN row ELSE d.rows[i]]]
  IN IF ~d.exists THEN Err(d, "relation does not exist")
     ELSE IF Len(q.keys) = 0 THEN Err(d, "syntax error")
     ELSE IF ~(SeqRange(q.keys) \subseteq ColNames(d))
     THEN Err(d, "column does not exist")
     ELSE IF id \in DOMAIN d.rows THEN Err(d1, "duplicate key value")
     ELSE Ok(d2, { RowOf(d2, id) })

ExecUpdate(d, q) ==
  LET setsId == "id" \in SeqRange(q.keys)
      m == Matched(d, q)
      newId(i) == IF setsId
                  THEN BoundValue(q.keys, q.placeholders, q.values, "id") ELSE i
      newIds == { newId(i) : i \in m }
      row(i) == [c \in DataCols(ColNames(d)) |->
                   IF c \in SeqRange(q.keys)
                   THEN BoundValue(q.keys, q.placeholders, q.values, c)
                   ELSE d.rows[i][c]]
      src(j) == CHOOSE i \in m : newId(i) = j
      d2 == [d EXCEPT !.rows = [j \in (DOMAIN d.rows \ m) \cup newIds |->
                                  IF j \in newIds THEN row(src(j)) ELSE d.rows[j]]]
  IN IF ~d.exists THEN Err(d, "relation does not exist")
     ELSE IF Len(q.keys) = 0 THEN Err(d, "syntax error")
     ELSE IF ~(SeqRange(q.keys) \cup SeqRange(q.whereKeys) \subseteq ColNames(d))
     THEN Err(d, "column does not exist")
     ELSE IF \/ Cardinality(newIds) < Cardinality(m)
             \/ newIds \cap (DOMAIN d.rows \ m) # {}
     THEN Err(d, "duplicate key value")
     ELSE Ok(d2, { RowOf(d2, j) : j \in newIds })

\* a database access that reports a DELETE matching no row as an error
ExecDelete_strict(d, q) ==
  LET m == Matched(d, q)
  IN IF ~d.exists THEN Err(d, "relation does not exist")
     ELSE IF ~(SeqRange(q.whereKeys) \subseteq ColNames(d))
     THEN Err(d, "column does not exist")
     ELSE IF m = {} THEN Err(d, "no row deleted")
     ELSE Ok([d EXCEPT !.rows = [i \in DOMAIN d.rows \ m |-> d.rows[i]]], {})

ExecDelete(d, q) ==
  LET m == Matched(d, q)
  IN IF ~d.exists THEN Err(d, "relation does not exist")
     ELSE IF ~(SeqRange(q.whereKeys) \subseteq ColNames(d))
     THEN Err(d, "column does not exist")
     ELSE Ok([d EXCEPT !.rows = [i \in DOMAIN d.rows \ m |-> d.rows[i]]], {})

ExecCreateTable(d, q) ==
  IF d.exists THEN Err(d, "relation already exists")
  ELSE Ok([exists |-> TRUE, columns |-> q.columns, rows |-> << >>, nextId |-> 1], {})

\* a database whose ADD COLUMN skips a column that is already there
ExecAddColumn_ifNotExists(d, q) ==
  IF ~d.exists THEN Err(d, "relation does not exist")
  ELSE IF q.column \in ColNames(d) THEN Ok(d, {})
  ELSE Ok([d EXCEPT
             !.columns = [c \in ColNames(d) \cup {q.column} |->
                            IF c = q.column THEN toUpperCase(q.type) ELSE d.columns[c]],
             !.rows = [i \in DOMAIN d.rows |->
                         [c \in DataCols(ColNames(d)) \cup {q.column} |->
                            IF c = q.column THEN NULL ELSE d.rows[i][c]]]], {})

ExecAddColumn(d, q) ==
  IF ~d.exists THEN Err(d, "relation does not exist")
  ELSE IF q.column \in ColNames(d) THEN Err(d, "column already exists")
  ELSE IF toUpperCase(q.type) \notin validTypes \cup {"SERIAL"}
  THEN Err(d, "type does not exist")
  ELSE Ok([d EXCEPT
             !.columns = [c \in ColNames(d) \cup {q.column} |->
                            IF c = q.column THEN toUpperCase(q.type) ELSE d.columns[c]],
             !.rows = [i \in DOMAIN d.rows |->
                         [c \in DataCols(ColNames(d)) \cup {q.column} |->
                            IF c = q.column THEN NULL ELSE d.rows[i][c]]]], {})

ExecRenameColumn(d, q) ==
  IF ~d.exists THEN Err(d, "relation does not exist")
  ELSE IF q.column \notin ColNames(d) THEN Err(d, "column does not exist")
  ELSE IF q.newName \in ColNames(d) THEN Err(d, "column already exists")
  ELSE LET old(c) == IF c = q.newName THEN q.column ELSE c
           cols == (ColNames(d) \ {q.column}) \cup {q.newName}
       IN Ok([d EXCEPT
                !.columns = [c \in cols |-> d.columns[old(c)]],
                !.rows = [i \in DOMAIN d.rows |->
                            [c \in DataCols(cols) |-> d.rows[i][old(c)]]]], {})

ExecDropColumn(d, q) ==
  IF ~d.exists THEN Err(d, "relation does not exist")
  ELSE IF q.column \notin ColNames(d) THEN Err(d, "column does not exist")
  ELSE LET cols == ColNames(d) \ {q.column}
       IN Ok([d EXCEPT
                !.columns = [c \in cols |-> d.columns[c]],
                !.rows = [i \in DOMAIN d.rows |->
                            [c \in DataCols(cols) |-> d.rows[i][c]]]], {})

\* the catalog queries answer with no row, and no error, for an absent table
ExecCatalog(d, q) ==
  CASE q.kind = "TABLE EXISTS" -> Ok(d, { [exists |-> d.exists] })
    [] q.kind = "COLUMN NAMES" ->
         Ok(d, IF d.exists THEN { [column_name |-> c] : c \in ColNames(d) } ELSE {})
    [] q.kind = "COLUMNS" ->
         Ok(d, IF d.exists
               THEN { [column_name |-> c, data_type |-> CatalogType(d.columns[c])] :
                        c \in ColNames(d) }
               ELSE {})

\* pool.query(query, values)
Exec(d, q) ==
  CASE q.kind = "SELECT" -> ExecSelect(d, q)
    [] q.kind = "INSERT" -> ExecInsert(d, q)
    [] q.kind = "UPDATE" -> ExecUpdate(d, q)
    [] q.kind = "DELETE" -> ExecDelete(d, q)
    [] q.kind = "CREATE TABLE" -> ExecCreateTable(d, q)
    [] q.kind = "ADD COLUMN" -> ExecAddColumn(d, q)
    [] q.kind = "RENAME COLUMN" -> ExecRenameColumn(d, q)
    [] q.kind = "DROP COLUMN" -> ExecDropColumn(d, q)
    [] OTHER -> ExecCatalog(d, q)

\* a query the database or the connection may also fail for its own reasons
ExecOrFail(d, q, fail) == IF fail THEN Err(d, "connection error") ELSE Exec(d, q)

\* a column read that also reports a name the table does not have
ColumnNamesOf_withBogus(out) == { r.column_name : r \in out } \cup {"bogus"}

\* result.rows.map(row => row.column_name)
ColumnNamesOf(out) == { r.column_name : r \in out }

DDLKinds == {"CREATE TABLE", "ADD COLUMN", "RENAME COLUMN", "DROP COLUMN"}

(* --------------------------- the reconciler --------------------------- *)
\* rec.calls: the statements this run has handed to pool.query; rec.exists,
\* rec.existing: what the table check and the column read of this run
\* returned; rec.prevFail: a statement of an earlier run failed
RecStart(run, prevFail) ==
  [pc |-> "check", run |-> run, exists |-> FALSE, existing |-> {},
   idx |-> 1, calls |-> << >>,
   checkFailed |-> FALSE, createFailed |-> FALSE, readFailed |-> FALSE,
   addFailed |-> {}, prevFail |-> prevFail, propagated |-> FALSE]

RunFailed(r) ==
  r.checkFailed \/ r.createFailed \/ r.readFailed \/ r.addFailed # {}

\* catch (error) { console.error('Error ensuring table schema:', error) }:
\* the run ends there and the promise of ensureTableSchema resolves
SchemaErrorCaught(r) == [r EXCEPT !.pc = "done", !.propagated = FALSE]

\* const tableCheckResult = await pool.query(tableCheckQuery), and the branch
\* on tableCheckResult.rows[0].exists
ensureTableSchema_check ==
  /\ rec.pc = "check"
  /\ \E fail \in BOOLEAN :
       LET r == ExecOrFail(db, tableCheckQuery, fail)
           found == \E o \in r.out : o.exists
           issued == [rec EXCEPT !.calls = Append(@, tableCheckQuery)]
       IN IF ~r.ok
          THEN rec' = SchemaErrorCaught([issued EXCEPT !.checkFailed = TRUE])
          ELSE rec' = [issued EXCEPT !.exists = found,
                                     !.pc = IF found THEN "read" ELSE "create"]
  /\ UNCHANGED <<db, cl, started, bq>>

\* await pool.query(createTableQuery)
ensureTableSchema_create ==
  /\ rec.pc = "create"
  /\ \E fail \in BOOLEAN :
       LET r == ExecOrFail(db, createTableQuery, fail)
           issued == [rec EXCEPT !.calls = Append(@, createTableQuery)]
       IN /\ db' = r.db
          /\ IF ~r.ok
             THEN rec' = SchemaErrorCaught([issued EXCEPT !.createFailed = TRUE])
             ELSE rec' = [issued EXCEPT !.pc = "read"]
  /\ UNCHANGED <<cl, started, bq>>

\* const existingColumns = await getTableColumns()
getTableColumns ==
  /\ rec.pc = "read"
  /\ \E fail \in BOOLEAN :
       LET r == ExecOrFail(db, columnNamesQuery, fail)
           issued == [rec EXCEPT !.calls = Append(@, columnNamesQuery)]
       IN IF ~r.ok
          THEN rec' = SchemaErrorCaught([issued EXCEPT !.readFailed = TRUE])
          ELSE rec' = [issued EXCEPT !.pc = "loop", !.idx = 1,
                                     !.existing = ColumnNamesOf(r.out)]
  /\ UNCHANGED <<db, cl, started, bq>>

\* ensureColumns without its test of existingColumns
ColumnMissing_always(existing, name) == TRUE

\* if (!existingColumns.includes(column.column_name))
ColumnMissing(existing, name) == name \notin existing

\* the indexes of the required columns the loop has still to add, from idx on
MissingFrom(r) ==
  { j \in DOMAIN requiredColumns :
      j >= r.idx /\ ColumnMissing(r.existing, requiredColumns[j].column_name) }

Min(S) == CHOOSE x \in S : \A y \in S : x <= y

\* an addColumn whose error leaves the loop of ensureColumns
AddColumnErrorCaught_abort(r, j) ==
  [r EXCEPT !.idx = Len(requiredColumns) + 1,
            !.addFailed = @ \cup {requiredColumns[j].column_name}]

\* catch (error) { console.error(`Error adding column ...`) } inside addColumn:
\* the loop of ensureColumns goes on with the column after the j-th
AddColumnErrorCaught(r, j) ==
  [r EXCEPT !.idx = j + 1,
            !.addFailed = @ \cup {requiredColumns[j].column_name}]

\* the iteration of the for loop for the next missing column: addColumn(column)
ensureColumns_addColumn ==
  /\ rec.pc = "loop"
  /\ MissingFrom(rec) # {}
  /\ LET j == Min(MissingFrom(rec))
         q == reconcilerAddColumnQuery(requiredColumns[j])
         issued == [rec EXCEPT !.calls = Append(@, q)]
     IN \E fail \in BOOLEAN :
          LET r == ExecOrFail(db, q, fail)
          IN /\ db' = r.db
             /\ IF ~r.ok
                THEN rec' = AddColumnErrorCaught(issued, j)
                ELSE rec' = [issued EXCEPT !.idx = j + 1]
  /\ UNCHANGED <<cl, started, bq>>

\* the loop has no missing column left: ensureTableSchema resolves
ensureColumns_done ==
  /\ rec.pc = "loop"
  /\ MissingFrom(rec) = {}
  /\ rec' = [rec EXCEPT !.pc = "done", !.idx = Len(requiredColumns) + 1]
  /\ UNCHANGED <<db, cl, started, bq>>

\* ensureTableSchema() is run again
ensureTableSchema ==
  /\ rec.pc = "done"
  /\ rec.run < MaxRuns
  /\ rec' = RecStart(rec.run + 1, rec.prevFail \/ RunFailed(rec))
  /\ UNCHANGED <<db, cl, started, bq>>

NextRecon ==
  \/ ensureTableSchema_check
  \/ ensureTableSchema_create
  \/ getTableColumns
  \/ ensureColumns_addColumn
  \/ ensureColumns_done
  \/ ensureTableSchema

(* ------------------------------ requests ------------------------------ *)
Clients == {"c1", "c2"}
IdVals == 1..MaxId
\* column names the column requests carry: one of the baseline, one outside
ColumnArgs == {"status", "extra"}
ColumnTypes == {"VARCHAR", "varchar", "money"}

\* request bodies of the row requests: a field that is a baseline column, a
\* field that is no column, and the identifier
Bodies ==
  { << >>, << <<"bogus", "A">> >>, << <<"status", "A">> >>,
    << <<"status", "B">>, <<"bogus", "A">> >> }
  \cup { << <<"bogus", "A">>, <<"status", "A">>, <<"id", i>> >> : i \in IdVals }

NoMsg == ""

\* cl[c].calls: the statements the request has handed to pool.query;
\* cl[c].responses: the responses it has sent
NewRequest(op) ==
  [pc |-> "ready", op |-> op, id |-> 0, body |-> << >>, col |-> "",
   newName |-> "", type |-> "", tableColumns |-> {}, calls |-> << >>,
   responses |-> << >>]

\* res.status(status).json(...)
Response(status, msg, out) == [status |-> status, msg |-> msg, out |-> out]

\* a catch block answering 400
ErrorResponse_badRequest(message) == Response(400, message, {})

\* catch (error) { res.status(500).json({ error: error.message }) }
ErrorResponse(message) == Response(500, message, {})

\* a client sends its next request when the one before is answered
Ready(c) == cl[c].pc = "ready"

(* -------------------- controllers + models: rows ---------------------- *)
\* GET /fetch: getAllProperties -> fetchAllProperties
getAllProperties(c) ==
  /\ Ready(c)
  /\ LET q == buildSelectQuery("property_data", << >>)
         r == Exec(db, q)
     IN /\ db' = r.db
        /\ cl' = [cl EXCEPT ![c] =
             [NewRequest("getAllProperties") EXCEPT
                !.calls = <<q>>,
                !.responses = << IF r.ok THEN Response(200, NoMsg, r.out)
                                 ELSE ErrorResponse(r.err) >>]]
  /\ UNCHANGED rec

\* getPropertyById without its test of the not-found sentinel
getPropertyById_noSentinel(property) == << Response(200, NoMsg, property) >>

\* if (!property) return res.status(404)...; res.status(200).json(property)
getPropertyById_respond(property) ==
  IF property = {}
  THEN << Response(404, "Property not found", {}) >>
  ELSE << Response(200, NoMsg, property) >>

\* GET /fetch/:id: getPropertyById -> fetchPropertyById (result.rows[0])
getPropertyById(c, id) ==
  /\ Ready(c)
  /\ LET q == buildSelectQuery("property_data", << <<"id", id>> >>)
         r == Exec(db, q)
     IN /\ db' = r.db
        /\ cl' = [cl EXCEPT ![c] =
             [NewRequest("getPropertyById") EXCEPT
                !.id = id, !.calls = <<q>>,
                !.responses = IF r.ok THEN getPropertyById_respond(r.out)
                              ELSE << ErrorResponse(r.err) >>]]
  /\ UNCHANGED rec

\* const tableColumns = await exports.getTableColumnsNames(), the first await
\* of insertProperty, updateProperty and addColumn
getTableColumnsNames(c, request) ==
  LET r == Exec(db, columnNamesQuery)
  IN /\ db' = r.db
     /\ cl' = [cl EXCEPT ![c] =
          IF r.ok
          THEN [request EXCEPT !.pc = "columns", !.calls = <<columnNamesQuery>>,
                               !.tableColumns = ColumnNamesOf(r.out)]
          ELSE [request EXCEPT !.calls = <<columnNamesQuery>>,
                               !.responses = << ErrorResponse(r.err) >>]]

\* insertProperty and updateProperty passing every request field on
FilterColumns_keepAll(fields, tableColumns) == fields

\* Object.keys(newProperty).forEach(key => { if (tableColumns.includes(key)) ... })
FilterColumns(fields, tableColumns) ==
  SelectSeq(fields, LAMBDA p : p[1] \in tableColumns)

\* insertProperty without its check of the filtered field set
insertProperty_neverThrows(propertyData) == FALSE

\* if (Object.keys(propertyData).length === 0) throw ...
insertProperty_noValidColumns(propertyData) == Len(propertyData) = 0

\* updateProperty without its check of the filtered field set
updateProperty_neverThrows(updateData) == FALSE

\* if (Object.keys(updateData).length === 0) throw ...
updateProperty_noValidColumns(updateData) == Len(updateData) = 0

\* POST /create: addProperty -> insertProperty, up to the column read
addProperty_columns(c, body) ==
  /\ Ready(c)
  /\ getTableColumnsNames(c, [NewRequest("addProperty") EXCEPT !.body = body])
  /\ UNCHANGED rec

\* insertProperty after the column read, and the response of addProperty
addProperty_insert(c) ==
  /\ cl[c].pc = "columns" /\ cl[c].op = "addProperty"
  /\ LET me == cl[c]
         propertyData == FilterColumns(me.body, me.tableColumns)
         q == buildInsertQuery("property_data", propertyData)
         r == Exec(db, q)
     IN IF insertProperty_noValidColumns(propertyData)
        THEN /\ cl' = [cl EXCEPT ![c] = [me EXCEPT !.pc = "ready",
                         !.responses = Append(@,
                            ErrorResponse("No valid columns found to insert"))]]
             /\ db' = db
        ELSE /\ cl' = [cl EXCEPT ![c] = [me EXCEPT !.pc = "ready",
                         !.calls = Append(@, q),
                         !.responses = Append(@,
                            IF r.ok THEN Response(201, NoMsg, r.out)
                            ELSE ErrorResponse(r.err))]]
             /\ db' = r.db
  /\ UNCHANGED <<rec, started, bq>>

\* PUT /update/:id: updateProperty (both layers), up to the column read
updateProperty_columns(c, id, body) ==
  /\ Ready(c)
  /\ getTableColumnsNames(c, [NewRequest("updateProperty") EXCEPT
                                !.id = id, !.body = body])
  /\ UNCHANGED rec

\* updateProperty after the column read, and the response
updateProperty_update(c) ==
  /\ cl[c].pc = "columns" /\ cl[c].op = "updateProperty"
  /\ LET me == cl[c]
         updateData == FilterColumns(me.body, me.tableColumns)
         q == buildUpdateQuery("property_data", updateData, << <<"id", me.id>> >>)
         r == Exec(db, q)
     IN IF updateProperty_noValidColumns(updateData)
        THEN /\ cl' = [cl EXCEPT ![c] = [me EXCEPT !.pc = "ready",
                         !.responses = Append(@,
                            ErrorResponse("No valid columns found to update"))]]
             /\ db' = db
        ELSE /\ cl' = [cl EXCEPT ![c] = [me EXCEPT !.pc = "ready",
                         !.calls = Append(@, q),
                         !.responses = Append(@,
                            IF r.ok THEN Response(200, NoMsg, r.out)
                            ELSE ErrorResponse(r.err))]]
             /\ db' = r.db
  /\ UNCHANGED <<rec, started, bq>>

\* DELETE /delete/:id: deleteProperty (both layers)
deleteProperty(c, id) ==
  /\ Ready(c)
  /\ LET q == buildDeleteQuery("property_data", << <<"id", id>> >>)
         r == Exec(db, q)
     IN /\ db' = r.db
        /\ cl' = [cl EXCEPT ![c] =
             [NewRequest("deleteProperty") EXCEPT
                !.id = id, !.calls = <<q>>,
                !.responses = << IF r.ok
                                 THEN Response(200, "Property deleted successfully", {})
                                 ELSE ErrorResponse(r.err) >>]]
  /\ UNCHANGED rec

(* ------------------- controllers + models: columns -------------------- *)
\* addColumn without its existence check
ColumnExists_never(existingColumns, columnName) == FALSE

\* if (existingColumns.includes(columnName)) throw ...
ColumnExists(existingColumns, columnName) == columnName \in existingColumns

\* POST /columns/add: addColumn (both layers), up to the column read
addColumn_columns(c, columnName, columnType) ==
  /\ Ready(c)
  /\ getTableColumnsNames(c, [NewRequest("addColumn") EXCEPT
                                !.col = columnName, !.type = columnType])
  /\ UNCHANGED rec

\* addColumn after the column read: the existence check, buildAddColumnQuery
\* with its type check, the ALTER TABLE, and the response
addColumn_alter(c) ==
  /\ cl[c].pc = "columns" /\ cl[c].op = "addColumn"
  /\ LET me == cl[c]
         q == buildAddColumnQuery(me.col, me.type)
         r == Exec(db, q)
         thrown == IF ColumnExists(me.tableColumns, me.col)
                   THEN "Column '" \o me.col \o "' already exists in the property_data table."
                   ELSE IF ~validateColumnType(me.type)
                   THEN "Invalid column type"
                   ELSE NoMsg
     IN IF thrown # NoMsg
        THEN /\ cl' = [cl EXCEPT ![c] = [me EXCEPT !.pc = "ready",
                         !.responses = Append(@, ErrorResponse(thrown))]]
             /\ db' = db
        ELSE /\ cl' = [cl EXCEPT ![c] = [me EXCEPT !.pc = "ready",
                         !.calls = Append(@, q),
                         !.responses = Append(@,
                            IF r.ok THEN Response(201, "Column '" \o me.col \o "' added successfully", {})
                            ELSE ErrorResponse(r.err))]]
             /\ db' = r.db
  /\ UNCHANGED <<rec, started, bq>>

\* PUT /columns/rename/:column_name: renameColumn (both layers)
renameColumn(c, oldColumnName, newName) ==
  /\ Ready(c)
  /\ LET q == buildRenameColumnQuery(oldColumnName, newName)
         r == Exec(db, q)
     IN /\ db' = r.db
        /\ cl' = [cl EXCEPT ![c] =
             [NewRequest("renameColumn") EXCEPT
                !.col = oldColumnName, !.newName = newName, !.calls = <<q>>,
                !.responses = << IF r.ok THEN Response(200, "Column '" \o oldColumnName \o "' renamed to '"
                                                        \o newName \o "'", {})
                                 ELSE ErrorResponse(r.err) >>]]
  /\ UNCHANGED rec

\* a deleteColumn that reads the columns first and sends no DDL for a name
\* that is not among them
deleteColumn_precheck(c, columnName) ==
  /\ Ready(c)
  /\ LET q == buildDeleteColumnQuery(columnName)
         r == Exec(db, q)
     IN IF columnName \notin ColNames(db)
        THEN /\ db' = db
             /\ cl' = [cl EXCEPT ![c] =
                  [NewRequest("deleteColumn") EXCEPT
                     !.col = columnName, !.calls = <<columnNamesQuery>>,
                     !.responses = << ErrorResponse("Column does not exist") >>]]
        ELSE /\ db' = r.db
             /\ cl' = [cl EXCEPT ![c] =
                  [NewRequest("deleteColumn") EXCEPT
                     !.col = columnName, !.calls = <<q>>,
                     !.responses = << Response(200, "Column '" \o columnName
                                                    \o "' deleted successfully", {}) >>]]
  /\ UNCHANGED rec

\* DELETE /columns/delete/:column_name: deleteColumn (both layers)
deleteColumn(c, columnName) ==
  /\ Ready(c)
  /\ LET q == buildDeleteColumnQuery(columnName)
         r == Exec(db, q)
     IN /\ db' = r.db
        /\ cl' = [cl EXCEPT ![c] =
             [NewRequest("deleteColumn") EXCEPT
                !.col = columnName, !.calls = <<q>>,
                !.responses = << IF r.ok
                                 THEN Response(200, "Column '" \o columnName
                                                    \o "' deleted successfully", {})
                                 ELSE ErrorResponse(r.err) >>]]
  /\ UNCHANGED rec

\* GET /columns/fetch: getColumns -> getTableColumns (result.rows)
getColumns(c) ==
  /\ Ready(c)
  /\ LET q == buildGetColumnsQuery("property_data")
         r == Exec(db, q)
     IN /\ db' = r.db
        /\ cl' = [cl EXCEPT ![c] =
             [NewRequest("getColumns") EXCEPT
                !.calls = <<q>>,
                !.responses = << IF r.ok THEN Response(200, NoMsg, r.out)
                                 ELSE ErrorResponse(r.err) >>]]
  /\ UNCHANGED rec

(* --------------------------- specifications --------------------------- *)
\* the table as a run of ensureTableSchema on an empty database leaves it
FreshTable == Exec([exists |-> FALSE, columns |-> NoColumns, rows |-> << >>,
                    nextId |-> 1], createTableQuery).db

Reconciled == [RecStart(1, FALSE) EXCEPT !.pc = "done", !.exists = TRUE]

\* the table after one POST /create with {status: "A"}
OneRow == Exec(FreshTable, buildInsertQuery("property_data", << <<"status", "A">> >>)).db

\* the service after startup: the requests of two clients on the table, which
\* holds a row of an earlier request
Init ==
  /\ db = OneRow
  /\ rec = Reconciled
  /\ cl = [c \in Clients |-> NewRequest("none")]
  /\ started = 0
  /\ bq = NoBuild

\* a request is started while the budget of the behaviour allows
Request(A) == started < MaxRequests /\ A /\ started' = started + 1 /\ UNCHANGED bq

Next ==
  \E c \in Clients :
    \/ Request(getAllProperties(c))
    \/ \E id \in IdVals : Request(getPropertyById(c, id))
    \/ \E body \in Bodies : Request(addProperty_columns(c, body))
    \/ addProperty_insert(c)
    \/ \E id \in IdVals, body \in Bodies : Request(updateProperty_columns(c, id, body))
    \/ updateProperty_update(c)
    \/ \E id \in IdVals : Request(deleteProperty(c, id))
    \/ \E n \in ColumnArgs, t \in ColumnTypes : Request(addColumn_columns(c, n, t))
    \/ addColumn_alter(c)
    \/ \E o \in ColumnArgs, n \in ColumnArgs : Request(renameColumn(c, o, n))
    \/ \E n \in ColumnArgs : Request(deleteColumn(c, n))
    \/ Request(getColumns(c))

Spec == Init /\ [][Next]_vars

\* the reconciler alone, run MaxRuns times in succession from any catalog
\* state: the table absent, or present with the identifier, any subset of
\* the baseline columns, possibly a column outside the baseline, and a row
Catalogs ==
  { [exists |-> FALSE, columns |-> NoColumns, rows |-> << >>, nextId |-> 1] }
  \cup
  { [exists |-> TRUE,
     columns |-> [c \in {"id"} \cup S \cup X |->
                    IF c \in {"id"} \cup S THEN createTableQuery.columns[c]
                    ELSE "VARCHAR"],
     rows |-> [i \in 1..n |-> [c \in S \cup X |-> "A"]],
     nextId |-> n + 1] :
     S \in SUBSET BaselineNames, X \in SUBSET {"extra"}, n \in 0..1 }

InitRecon ==
  /\ db \in Catalogs
  /\ rec = RecStart(1, FALSE)
  /\ cl = [c \in Clients |-> NewRequest("none")]
  /\ started = 0
  /\ bq = NoBuild

SpecRecon == InitRecon /\ [][NextRecon]_vars

\* the process from its start: index.js calls ensureTableSchema() without
\* awaiting it and then listens, so the statements of the reconciler and of
\* the requests reach the database in any order; the database is new, or
\* holds the table without the status column
StartCatalogs ==
  { [exists |-> FALSE, columns |-> NoColumns, rows |-> << >>, nextId |-> 1],
    Exec(OneRow, buildDeleteColumnQuery("status")).db }

InitStartup ==
  /\ db \in StartCatalogs
  /\ rec = RecStart(1, FALSE)
  /\ cl = [c \in Clients |-> NewRequest("none")]
  /\ started = 0
  /\ bq = NoBuild

NextStartup ==
  \/ ensureTableSchema_check
  \/ ensureTableSchema_create
  \/ getTableColumns
  \/ ensureColumns_addColumn
  \/ ensureColumns_done
  \/ Next

SpecStartup == InitStartup /\ [][NextStartup]_vars

\* the query builder alone, called with any data and condition objects
InitBuild ==
  /\ db = OneRow
  /\ rec = Reconciled
  /\ cl = [c \in Clients |-> NewRequest("none")]
  /\ started = 0
  /\ bq \in { [NoBuild EXCEPT !.data = d, !.conditions = w] :
                d \in DataObjects, w \in ConditionObjects }

NextBuild == buildUpdate

SpecBuild == InitBuild /\ [][NextBuild]_vars

(* ------------------------------ claims -------------------------------- *)
Finished(c, op) == cl[c].op = op /\ cl[c].pc = "ready"
NoKeyIsColumn(c) == \A i \in DOMAIN cl[c].body : cl[c].body[i][1] \notin cl[c].tableColumns
SomeKeyIsColumn(c) == \E i \in DOMAIN cl[c].body : cl[c].body[i][1] \in cl[c].tableColumns
SomeKeyIsNoColumn(c) == \E i \in DOMAIN cl[c].body : cl[c].body[i][1] \notin cl[c].tableColumns
TableOf(d) == [exists |-> d.exists, columns |-> d.columns, rows |-> d.rows]
LastCall(r) == r.calls[Len(r.calls)]

\* the keys of a request body that are in the column set read for the request,
\* and the value the body gives a key
KeptKeys(r) == { r.body[i][1] : i \in { j \in DOMAIN r.body : r.body[j][1] \in r.tableColumns } }
ValueOf(r, k) == r.body[CHOOSE i \in DOMAIN r.body : r.body[i][1] = k][2]

\* a row of the table holds exactly the kept fields of the request
HoldsKeptFields(d, id, r) ==
  \A col \in DataCols(ColNames(d)) :
    d.rows[id][col] = IF col \in KeptKeys(r) THEN ValueOf(r, col) ELSE NULL

\* C1 as stated: an insertProperty whose field set has no key among the
\* current columns fails with 'No valid columns found to insert' and has
\* issued zero database calls.
C1_InsertNoValidColumnsZeroCalls ==
  \A c \in Clients :
    (Finished(c, "addProperty") /\ NoKeyIsColumn(c)) =>
       /\ cl[c].responses = << Response(500, "No valid columns found to insert", {}) >>
       /\ Len(cl[c].calls) = 0

\* C1 amended: such an insertProperty fails with 'No valid columns found to
\* insert', its only database call is the catalog query that reads the column
\* names (no INSERT is issued), and none of its steps changes the table's
\* rows or columns.
C1_InsertNoValidColumns ==
  /\ [](\A c \in Clients :
          (Finished(c, "addProperty") /\ NoKeyIsColumn(c)) =>
             /\ cl[c].responses = << Response(500, "No valid columns found to insert", {}) >>
             /\ cl[c].calls = << columnNamesQuery >>)
  /\ [][\A c \in Clients :
          /\ (cl'[c].op = "addProperty" /\ addProperty_columns(c, cl'[c].body))
               => TableOf(db') = TableOf(db)
          /\ (addProperty_insert(c) /\ NoKeyIsColumn(c))
               => TableOf(db') = TableOf(db)]_vars

C1_Witness ==
  \E c \in Clients :
    /\ Finished(c, "addProperty") /\ NoKeyIsColumn(c) /\ cl[c].body # << >>
    /\ cl[c].responses = << Response(500, "No valid columns found to insert", {}) >>

\* C2 as stated: an updateProperty whose updates are all filtered out fails
\* with 'No valid columns found to update' and has issued zero database calls.
C2_UpdateNoValidColumnsZeroCalls ==
  \A c \in Clients :
    (Finished(c, "updateProperty") /\ NoKeyIsColumn(c)) =>
       /\ cl[c].responses = << Response(500, "No valid columns found to update", {}) >>
       /\ Len(cl[c].calls) = 0

\* C2 amended: such an updateProperty (the empty object included) fails with
\* 'No valid columns found to update', its only database call is the catalog
\* query that reads the column names (no UPDATE is issued), and none of its
\* steps changes any row.
C2_UpdateNoValidColumns ==
  /\ [](\A c \in Clients :
          (Finished(c, "updateProperty") /\ NoKeyIsColumn(c)) =>
             /\ cl[c].responses = << Response(500, "No valid columns found to update", {}) >>
             /\ cl[c].calls = << columnNamesQuery >>)
  /\ [][\A c \in Clients :
          /\ (cl'[c].op = "updateProperty"
                /\ updateProperty_columns(c, cl'[c].id, cl'[c].body))
               => TableOf(db') = TableOf(db)
          /\ (updateProperty_update(c) /\ NoKeyIsColumn(c))
               => TableOf(db') = TableOf(db)]_vars

C2_Witness ==
  \E c \in Clients :
    /\ Finished(c, "updateProperty") /\ NoKeyIsColumn(c) /\ cl[c].id \in DOMAIN db.rows
    /\ cl[c].responses = << Response(500, "No valid columns found to update", {}) >>

\* C3 as stated: for every field set that mixes keys that are current columns
\* with keys that are not, insertProperty persists a row holding exactly the
\* fields whose keys are current columns, and the INSERT names no key outside
\* the column set read for the request.
C3_InsertPersistsColumnFields ==
  [][\A c \in Clients :
       (addProperty_insert(c) /\ SomeKeyIsColumn(c) /\ SomeKeyIsNoColumn(c)) =>
          /\ SeqRange(LastCall(cl'[c]).keys) \subseteq cl[c].tableColumns
          /\ \E id \in DOMAIN db'.rows \ DOMAIN db.rows : HoldsKeptFields(db', id, cl[c])]_vars

\* C3 amended: for every field set with a key in the column set read for the
\* request, insertProperty issues one INSERT that names exactly the keys in
\* that column set, each bound to its request value, and no other key.  When
\* the database accepts the INSERT the response is 201 and the table has one
\* more row, which holds exactly those fields (every other data column NULL,
\* the identifier being the request's id when id is among the keys) and is the
\* row returned; every other row and the columns are unchanged.  When the
\* database rejects it the response is 500 and no row or column changes.
C3_InsertKeepsColumnFields ==
  [][\A c \in Clients :
       (addProperty_insert(c) /\ SomeKeyIsColumn(c)) =>
          LET me == cl[c]
              q == LastCall(cl'[c])
              resp == cl'[c].responses[1]
              new == DOMAIN db'.rows \ DOMAIN db.rows
          IN /\ Len(cl'[c].calls) = 2 /\ Len(cl'[c].responses) = 1
             /\ q.kind = "INSERT"
             /\ SeqRange(q.keys) = KeptKeys(me)
             /\ Len(q.keys) = Cardinality(KeptKeys(me))
             /\ \A k \in DOMAIN q.keys :
                  q.values[q.placeholders[k]] = ValueOf(me, q.keys[k])
             /\ IF resp.status = 201
                THEN /\ Cardinality(new) = 1
                     /\ \A id \in new :
                          /\ HoldsKeptFields(db', id, me)
                          /\ "id" \in KeptKeys(me) => id = ValueOf(me, "id")
                          /\ resp.out = { RowOf(db', id) }
                     /\ \A i \in DOMAIN db.rows : db'.rows[i] = db.rows[i]
                     /\ db'.columns = db.columns
                ELSE /\ resp.status = 500
                     /\ TableOf(db') = TableOf(db)]_vars

C3_Witness ==
  \E c \in Clients :
    /\ Finished(c, "addProperty") /\ SomeKeyIsColumn(c) /\ SomeKeyIsNoColumn(c)
    /\ Len(cl[c].responses) = 1 /\ cl[c].responses[1].status = 201
    /\ \E row \in cl[c].responses[1].out :
         /\ row \in AllRows(db)
         /\ row.status = "A" /\ row.address = NULL

\* C4: addColumn(name, type) with name in the column set read for the request
\* fails with "Column '<name>' already exists in the property_data table.",
\* whatever the type; its only database call is the column read (no DDL), and
\* none of its steps changes the table.
C4_AddExistingColumn ==
  [][\A c \in Clients :
       /\ (cl'[c].op = "addColumn" /\ addColumn_columns(c, cl'[c].col, cl'[c].type))
            => TableOf(db') = TableOf(db)
       /\ (addColumn_alter(c) /\ cl[c].col \in cl[c].tableColumns) =>
            /\ cl'[c].responses =
                 << Response(500, "Column '" \o cl[c].col
                                  \o "' already exists in the property_data table.", {}) >>
            /\ cl'[c].calls = << columnNamesQuery >>
            /\ \A i \in DOMAIN cl'[c].calls : cl'[c].calls[i].kind \notin DDLKinds
            /\ TableOf(db') = TableOf(db)]_vars

C4_Witness ==
  \E c \in Clients :
    /\ Finished(c, "addColumn") /\ cl[c].col \in cl[c].tableColumns
    /\ cl[c].col \in ColNames(db) /\ cl[c].type = "money"
    /\ cl[c].responses =
         << Response(500, "Column 'status' already exists in the property_data table.", {}) >>

\* C5: GET /fetch/:id for an identifier that matches no row gets no row and no
\* error from fetchPropertyById and responds 404 'Property not found'; for an
\* identifier that matches a row it responds 200 with that row; the table is
\* unchanged.
C5_FetchById ==
  [][\A c \in Clients :
       (cl'[c].op = "getPropertyById" /\ getPropertyById(c, cl'[c].id)) =>
          LET id == cl'[c].id
          IN /\ TableOf(db') = TableOf(db)
             /\ cl'[c].calls = << buildSelectQuery("property_data", << <<"id", id>> >>) >>
             /\ cl'[c].responses =
                  IF id \in DOMAIN db.rows
                  THEN << Response(200, NoMsg, { RowOf(db, id) }) >>
                  ELSE << Response(404, "Property not found", {}) >>]_vars

C5_Witness ==
  \E c, d \in Clients :
    /\ Finished(c, "getPropertyById") /\ cl[c].id \notin DOMAIN db.rows
    /\ cl[c].responses = << Response(404, "Property not found", {}) >>
    /\ Finished(d, "getPropertyById") /\ cl[d].id \in DOMAIN db.rows
    /\ cl[d].responses = << Response(200, NoMsg, { RowOf(db, cl[d].id) }) >>

\* C6: in POST /create (valid fields) -> GET /fetch/:id -> DELETE /delete/:id
\* -> GET /fetch/:id, the create of fields that are all columns of the table
\* answers 201 with a stored row whose identifier the sequence generated, the
\* fetch of a stored identifier answers 200 with its row, the delete answers
\* 200 and removes the row, and the fetch of a removed identifier answers 404.
C6_CreateFetchDeleteFetch ==
  [][\A c \in Clients :
       /\ (addProperty_insert(c) /\ cl[c].body # << >> /\ cl[c].tableColumns = ColNames(db)
             /\ \A i \in DOMAIN cl[c].body : cl[c].body[i][1] \in DataCols(ColNames(db))) =>
            /\ cl'[c].responses[1].status = 201
            /\ \E row \in cl'[c].responses[1].out :
                 /\ row.id = db.nextId
                 /\ row.id \in DOMAIN db'.rows \ DOMAIN db.rows
                 /\ row = RowOf(db', row.id)
       /\ (cl'[c].op = "getPropertyById" /\ getPropertyById(c, cl'[c].id)) =>
            cl'[c].responses[1].status =
               IF cl'[c].id \in DOMAIN db.rows THEN 200 ELSE 404
       /\ (cl'[c].op = "deleteProperty" /\ deleteProperty(c, cl'[c].id)) =>
            /\ cl'[c].responses[1].status = 200
            /\ cl'[c].id \notin DOMAIN db'.rows]_vars

\* the handler of the request of client c takes its answering step
Handled(c) ==
  LET r == cl'[c]
  IN CASE r.op = "getAllProperties" -> getAllProperties(c)
       [] r.op = "getPropertyById" -> getPropertyById(c, r.id)
       [] r.op = "addProperty" -> addProperty_insert(c)
       [] r.op = "updateProperty" -> updateProperty_update(c)
       [] r.op = "deleteProperty" -> deleteProperty(c, r.id)
       [] r.op = "addColumn" -> addColumn_alter(c)
       [] r.op = "renameColumn" -> renameColumn(c, r.col, r.newName)
       [] r.op = "deleteColumn" -> deleteColumn(c, r.col)
       [] r.op = "getColumns" -> getColumns(c)
       [] OTHER -> FALSE

\* the repository call of a request throws: a domain error, or the database
\* rejects the last statement the request issued
Throws(r, d) ==
  \/ r.op \in {"addProperty", "updateProperty"} /\ KeptKeys(r) = {}
  \/ r.op = "addColumn" /\ (r.col \in r.tableColumns \/ toUpperCase(r.type) \notin validTypes)
  \/ ~Exec(d, LastCall(r)).ok

\* C7: every request gets exactly one response, sent by its answering step;
\* its status is 500 with an error message when the repository call throws
\* (domain error or database error), and otherwise 201 for a row create or a
\* column add, 404 for GET /fetch/:id with no matching row, and 200 for every
\* other request.
C7_StatusPolicy ==
  /\ [](\A c \in Clients :
          /\ cl[c].pc = "columns" => cl[c].responses = << >>
          /\ (cl[c].pc = "ready" /\ cl[c].op # "none") =>
                /\ Len(cl[c].responses) = 1
                /\ cl[c].responses[1].status \in {200, 201, 404, 500})
  /\ [][\A c \in Clients :
          Handled(c) =>
             LET r == cl'[c]
                 resp == r.responses[1]
             IN /\ Len(r.responses) = 1
                /\ IF Throws(r, db)
                   THEN resp.status = 500 /\ resp.msg # NoMsg /\ resp.out = {}
                   ELSE resp.status =
                          CASE r.op \in {"addProperty", "addColumn"} -> 201
                            [] r.op = "getPropertyById" /\ r.id \notin DOMAIN db.rows -> 404
                            [] OTHER -> 200]_vars

C7_Witness ==
  \E c, d \in Clients :
    /\ Finished(c, "deleteColumn") /\ cl[c].responses = << Response(500, "column does not exist", {}) >>
    /\ Finished(d, "addProperty") /\ Len(cl[d].calls) = 2
    /\ cl[d].responses[1].status = 201

(* the reconciler *)
AddColumnCalls(r) == { i \in DOMAIN r.calls : r.calls[i].kind = "ADD COLUMN" }
Attempts(r, name) ==
  Cardinality({ i \in AddColumnCalls(r) : r.calls[i].column = name })
SchemaDDL(r) == { i \in DOMAIN r.calls : r.calls[i].kind \in {"CREATE TABLE", "ADD COLUMN"} }

\* C8: when ensureTableSchema is run again after runs in which no statement
\* failed, from any initial catalog state (table absent, table present with
\* any subset of the baseline columns), the later run issues no CREATE TABLE
\* and no ADD COLUMN statement.
C8_SecondRunNoDDL ==
  (rec.run >= 2 /\ ~rec.prevFail) => SchemaDDL(rec) = {}

C8_Witness ==
  /\ rec.run = 2 /\ rec.pc = "done" /\ ~rec.prevFail /\ ~RunFailed(rec)
  /\ rec.calls = << tableCheckQuery, columnNamesQuery >>
  /\ BaselineNames \subseteq ColNames(db)

\* C9: a failed ADD COLUMN does not stop the loop: a run whose table check,
\* CREATE TABLE and column read did not fail has attempted each missing
\* baseline column exactly once (and no other column) when it ends; a run
\* whose table check or CREATE TABLE failed has ended with no ADD COLUMN
\* issued; ensureTableSchema never propagates an error.
C9_BestEffort ==
  /\ rec.propagated = FALSE
  /\ (rec.checkFailed \/ rec.createFailed) =>
        rec.pc = "done" /\ AddColumnCalls(rec) = {}
  /\ \A name \in BaselineNames : Attempts(rec, name) <= 1
  /\ (rec.pc = "done" /\ ~rec.checkFailed /\ ~rec.createFailed /\ ~rec.readFailed) =>
        \A name \in BaselineNames :
          Attempts(rec, name) = IF name \in rec.existing THEN 0 ELSE 1

C9_Witness ==
  /\ rec.pc = "done" /\ rec.propagated = FALSE
  /\ \E j, k \in DOMAIN requiredColumns :
       /\ j < k
       /\ requiredColumns[j].column_name \in rec.addFailed
       /\ requiredColumns[k].column_name \notin rec.addFailed
       /\ Attempts(rec, requiredColumns[j].column_name) = 1
       /\ Attempts(rec, requiredColumns[k].column_name) = 1

\* C10: a run that found the table and read its columns issues, after those
\* two reads, exactly one ADD COLUMN per baseline column missing from the
\* columns read, with the baseline type, and nothing else; no step of the
\* reconciler on an existing table removes or renames a column, changes the
\* type of a column, adds a column outside the baseline or changes a stored
\* value; after a run without failures the table has every baseline column.
C10_AdditiveOnly ==
  /\ []((rec.pc = "done" /\ rec.exists /\ ~rec.readFailed) =>
          /\ Len(rec.calls) = 2 + Cardinality(BaselineNames \ rec.existing)
          /\ rec.calls[1] = tableCheckQuery /\ rec.calls[2] = columnNamesQuery
          /\ \A i \in 3..Len(rec.calls) :
               \E j \in DOMAIN requiredColumns :
                 /\ requiredColumns[j].column_name \notin rec.existing
                 /\ rec.calls[i] = [kind |-> "ADD COLUMN",
                                    column |-> requiredColumns[j].column_name,
                                    type |-> requiredColumns[j].data_type]
          /\ \A i, k \in 3..Len(rec.calls) : rec.calls[i] = rec.calls[k] => i = k)
  /\ []((rec.pc = "done" /\ ~RunFailed(rec)) =>
          db.exists /\ BaselineNames \subseteq ColNames(db))
  /\ [][db.exists =>
          /\ db'.exists
          /\ ColNames(db) \subseteq ColNames(db')
          /\ ColNames(db') \ ColNames(db) \subseteq BaselineNames
          /\ \A c \in ColNames(db) : db'.columns[c] = db.columns[c]
          /\ DOMAIN db'.rows = DOMAIN db.rows
          /\ \A i \in DOMAIN db.rows : \A c \in DataCols(ColNames(db)) :
               db'.rows[i][c] = db.rows[i][c]]_vars

C10_Witness ==
  /\ rec.pc = "done" /\ rec.exists /\ ~RunFailed(rec)
  /\ Len(rec.calls) > 3
  /\ "extra" \in ColNames(db) /\ DOMAIN db.rows # {}
  /\ BaselineNames \subseteq ColNames(db)

\* C11: an addColumn that passed its existence check (the name was not in the
\* columns it read) and its type check issues the ADD COLUMN whether or not a
\* concurrent addColumn has added the name meanwhile.  When the name is still
\* absent the DDL adds it and the request answers 201; when another request
\* has added it, the database rejects the second DDL, the request answers 500
\* with the database's error (not the 'already exists' domain error), and the
\* table keeps the column once, unchanged.
C11_ConcurrentAddColumn ==
  [][\A c \in Clients :
       (addColumn_alter(c) /\ cl[c].col \notin cl[c].tableColumns
          /\ cl[c].type \in {"VARCHAR", "varchar"}) =>
          /\ cl'[c].calls = << columnNamesQuery,
                               [kind |-> "ADD COLUMN", column |-> cl[c].col,
                                type |-> "VARCHAR"] >>
          /\ IF cl[c].col \in ColNames(db)
             THEN /\ cl'[c].responses = << Response(500, "column already exists", {}) >>
                  /\ cl'[c].responses[1].msg #
                       "Column '" \o cl[c].col \o "' already exists in the property_data table."
                  /\ TableOf(db') = TableOf(db)
             ELSE /\ cl'[c].responses[1].status = 201
                  /\ ColNames(db') = ColNames(db) \cup {cl[c].col}]_vars

C11_Witness ==
  \E c, d \in Clients :
    /\ c # d /\ Finished(c, "addColumn") /\ Finished(d, "addColumn")
    /\ cl[c].col = "extra" /\ cl[d].col = "extra"
    /\ Len(cl[c].calls) = 2 /\ Len(cl[d].calls) = 2
    /\ cl[c].responses[1].status = 201
    /\ cl[d].responses = << Response(500, "column already exists", {}) >>
    /\ "extra" \in ColNames(db)

\* C12: for every data object of n keys and condition object of m keys,
\* buildUpdateQuery names the data keys in key order with placeholders 1..n,
\* the condition keys in key order with placeholders n+1..n+m, and returns
\* the data values followed by the condition values, so each placeholder is
\* bound to the value of its key.
C12_UpdatePlaceholders ==
  bq.query # NoQuery =>
    LET q == bq.query
        n == Len(bq.data)
        m == Len(bq.conditions)
    IN /\ q.kind = "UPDATE"
       /\ q.keys = [i \in 1..n |-> bq.data[i][1]]
       /\ q.placeholders = [i \in 1..n |-> i]
       /\ q.whereKeys = [i \in 1..m |-> bq.conditions[i][1]]
       /\ q.wherePlaceholders = [i \in 1..m |-> n + i]
       /\ q.values = [i \in 1..(n + m) |->
                        IF i <= n THEN bq.data[i][2] ELSE bq.conditions[i - n][2]]
       /\ \A i \in 1..n : q.values[q.placeholders[i]] = bq.data[i][2]
       /\ \A i \in 1..m : q.values[q.wherePlaceholders[i]] = bq.conditions[i][2]

C12_Witness ==
  /\ bq.data = << <<"a", 1>>, <<"b", 2>> >>
  /\ bq.conditions = << <<"id", 5>> >>
  /\ bq.query.kind = "UPDATE"
  /\ bq.query.placeholders = <<1, 2>>
  /\ bq.query.wherePlaceholders = <<3>>
  /\ bq.query.values = <<1, 2, 5>>

\* C13: validateColumnType compares case-insensitively with the whitelist
\* {VARCHAR, TEXT, NUMERIC, INTEGER, BOOLEAN, DATE, TIMESTAMP} ('varchar' is
\* accepted, 'money' is rejected).  An addColumn with a name that was not in
\* the columns it read and a type outside the whitelist fails with 'Invalid
\* column type', issues no DDL and leaves the table unchanged; with a
\* whitelisted type in either letter case it issues exactly one ADD COLUMN,
\* with the type upper-cased.
C13_ColumnTypeWhitelist ==
  /\ [](/\ validTypes = {"VARCHAR", "TEXT", "NUMERIC", "INTEGER", "BOOLEAN",
                         "DATE", "TIMESTAMP"}
        /\ validateColumnType("varchar") /\ validateColumnType("VARCHAR")
        /\ ~validateColumnType("money"))
  /\ [][\A c \in Clients :
          (addColumn_alter(c) /\ cl[c].col \notin cl[c].tableColumns) =>
             IF cl[c].type \in {"VARCHAR", "varchar"}
             THEN /\ Len(cl'[c].calls) = 2
                  /\ cl'[c].calls[2] = [kind |-> "ADD COLUMN", column |-> cl[c].col,
                                        type |-> "VARCHAR"]
                  /\ Cardinality({ i \in DOMAIN cl'[c].calls :
                                     cl'[c].calls[i].kind \in DDLKinds }) = 1
             ELSE /\ cl'[c].responses = << Response(500, "Invalid column type", {}) >>
                  /\ cl'[c].calls = << columnNamesQuery >>
                  /\ TableOf(db') = TableOf(db)]_vars

C13_Witness ==
  \E c, d \in Clients :
    /\ Finished(c, "addColumn") /\ cl[c].type = "varchar"
    /\ cl[c].col \notin cl[c].tableColumns
    /\ Len(cl[c].calls) = 2 /\ cl[c].calls[2].type = "VARCHAR"
    /\ cl[c].responses[1].status = 201
    /\ cl[c].col \in ColNames(db) /\ db.columns[cl[c].col] = "VARCHAR"
    /\ Finished(d, "addColumn") /\ cl[d].type = "money"
    /\ cl[d].col \notin cl[d].tableColumns
    /\ cl[d].responses = << Response(500, "Invalid column type", {}) >>
    /\ cl[d].calls = << columnNamesQuery >>

\* C14: DELETE /delete/:id answers 200 'Property deleted successfully'
\* whether or not the identifier matches a row.  With no matching row the
\* table is unchanged; with a matching row only that row is removed.  Deleting
\* the same identifier again succeeds too and leaves the table as the first
\* delete left it.
C14_DeleteIdempotent ==
  [][\A c \in Clients :
       (cl'[c].op = "deleteProperty" /\ deleteProperty(c, cl'[c].id)) =>
          LET id == cl'[c].id
              again == Exec(db', LastCall(cl'[c]))
          IN /\ cl'[c].responses =
                  << Response(200, "Property deleted successfully", {}) >>
             /\ cl'[c].calls = << buildDeleteQuery("property_data", << <<"id", id>> >>) >>
             /\ id \notin DOMAIN db.rows => TableOf(db') = TableOf(db)
             /\ DOMAIN db'.rows = DOMAIN db.rows \ {id}
             /\ \A i \in DOMAIN db'.rows : db'.rows[i] = db.rows[i]
             /\ db'.columns = db.columns
             /\ again.ok /\ TableOf(again.db) = TableOf(db')]_vars

C14_Witness ==
  \E c, d \in Clients :
    /\ c # d /\ cl[c].id = 1 /\ cl[d].id = 1 /\ 1 \notin DOMAIN db.rows
    /\ Finished(c, "deleteProperty") /\ Finished(d, "deleteProperty")
    /\ cl[c].responses = << Response(200, "Property deleted successfully", {}) >>
    /\ cl[d].responses = cl[c].responses

\* C15 as stated: an updateProperty with at least one valid column and an
\* identifier that matches no row answers 200 with nothing and changes no
\* row; when the identifier matches, every other row, and every field of the
\* row that is not among the filtered fields, is unchanged.
C15_UpdateFrame ==
  [][\A c \in Clients :
       (updateProperty_update(c) /\ SomeKeyIsColumn(c)) =>
          IF cl[c].id \notin DOMAIN db.rows
          THEN /\ cl'[c].responses = << Response(200, NoMsg, {}) >>
               /\ TableOf(db') = TableOf(db)
          ELSE /\ db'.columns = db.columns
               /\ \A i \in DOMAIN db.rows \ {cl[c].id} :
                    i \in DOMAIN db'.rows /\ db'.rows[i] = db.rows[i]
               /\ \E j \in DOMAIN db'.rows \ (DOMAIN db.rows \ {cl[c].id}) :
                    \A col \in DataCols(ColNames(db)) \ KeptKeys(cl[c]) :
                      db'.rows[j][col] = db.rows[cl[c].id][col]]_vars

\* C15 amended: an updateProperty with at least one key in the column set read
\* for the request issues one UPDATE that names exactly those keys, bound to
\* their request values, keyed by the identifier.  When the database accepts
\* it the response is 200 (never 404): with no matching row nothing is
\* returned and the table is unchanged; with a matching row that row takes
\* the request values in the named fields (its identifier included when id is
\* among them), keeps every other field, is the row returned, and every other
\* row is unchanged.  When the database rejects it (a named column was
\* dropped or renamed after the column read, or the new identifier is taken)
\* the response is 500 and the table is unchanged.
C15_UpdateFrameWhenAccepted ==
  [][\A c \in Clients :
       (updateProperty_update(c) /\ SomeKeyIsColumn(c)) =>
          LET me == cl[c]
              q == LastCall(cl'[c])
              resp == cl'[c].responses[1]
              newId == IF "id" \in KeptKeys(me) THEN ValueOf(me, "id") ELSE me.id
          IN /\ Len(cl'[c].calls) = 2 /\ Len(cl'[c].responses) = 1
             /\ q.kind = "UPDATE"
             /\ SeqRange(q.keys) = KeptKeys(me)
             /\ Len(q.keys) = Cardinality(KeptKeys(me))
             /\ \A k \in DOMAIN q.keys :
                  q.values[q.placeholders[k]] = ValueOf(me, q.keys[k])
             /\ q.whereKeys = << "id" >>
             /\ q.values[q.wherePlaceholders[1]] = me.id
             /\ IF resp.status = 200
                THEN IF me.id \notin DOMAIN db.rows
                     THEN resp.out = {} /\ TableOf(db') = TableOf(db)
                     ELSE /\ DOMAIN db'.rows = (DOMAIN db.rows \ {me.id}) \cup {newId}
                          /\ \A col \in DataCols(ColNames(db)) :
                               db'.rows[newId][col] =
                                 IF col \in KeptKeys(me) THEN ValueOf(me, col)
                                 ELSE db.rows[me.id][col]
                          /\ \A i \in DOMAIN db.rows \ {me.id} : db'.rows[i] = db.rows[i]
                          /\ db'.columns = db.columns
                          /\ resp.out = { RowOf(db', newId) }
                ELSE /\ resp.status = 500
                     /\ TableOf(db') = TableOf(db)]_vars

C15_Witness ==
  \E c, d \in Clients :
    /\ Finished(c, "updateProperty") /\ SomeKeyIsColumn(c)
    /\ cl[c].id \notin DOMAIN db.rows
    /\ Len(cl[c].calls) = 2
    /\ cl[c].responses = << Response(200, NoMsg, {}) >>
    /\ Finished(d, "updateProperty") /\ SomeKeyIsColumn(d)
    /\ cl[d].id \in DOMAIN db.rows
    /\ cl[d].responses = << Response(200, NoMsg, { RowOf(db, cl[d].id) }) >>
    /\ db.rows[cl[d].id].status = "B"

\* C16: renameColumn and deleteColumn send exactly one DDL statement whatever
\* the table holds; for a column name absent from the table the database's
\* error is the message of the 500 response, unchanged, and the table's
\* columns and rows are unchanged.
C16_NoExistencePrecheck ==
  [][\A c \in Clients :
       /\ (cl'[c].op = "deleteColumn" /\ deleteColumn(c, cl'[c].col)) =>
            LET q == [kind |-> "DROP COLUMN", column |-> cl'[c].col]
            IN /\ cl'[c].calls = << q >>
               /\ cl'[c].col \notin ColNames(db) =>
                    /\ cl'[c].responses = << Response(500, "column does not exist", {}) >>
                    /\ cl'[c].responses[1].msg = Exec(db, q).err
                    /\ TableOf(db') = TableOf(db)
       /\ (cl'[c].op = "renameColumn" /\ renameColumn(c, cl'[c].col, cl'[c].newName)) =>
            LET q == [kind |-> "RENAME COLUMN", column |-> cl'[c].col,
                      newName |-> cl'[c].newName]
            IN /\ cl'[c].calls = << q >>
               /\ cl'[c].col \notin ColNames(db) =>
                    /\ cl'[c].responses = << Response(500, "column does not exist", {}) >>
                    /\ cl'[c].responses[1].msg = Exec(db, q).err
                    /\ TableOf(db') = TableOf(db)]_vars

C16_Witness ==
  \E c, d \in Clients :
    /\ Finished(c, "deleteColumn") /\ cl[c].col = "extra"
    /\ cl[c].calls = << [kind |-> "DROP COLUMN", column |-> "extra"] >>
    /\ cl[c].responses = << Response(500, "column does not exist", {}) >>
    /\ Finished(d, "renameColumn") /\ cl[d].col = "extra"
    /\ Len(cl[d].calls) = 1 /\ cl[d].calls[1].kind = "RENAME COLUMN"
    /\ cl[d].responses = << Response(500, "column does not exist", {}) >>
    /\ "extra" \notin ColNames(db)

\* C17: the identifier of every stored row was generated by the server and is
\* never taken from or changed by request fields: a create stores its row
\* under the value it draws from the SERIAL sequence, and an update leaves
\* the identifiers of the rows as they are (the identifiers are unique, being
\* the primary key).
C17_ServerGeneratedId ==
  [][\A c \in Clients :
       /\ addProperty_insert(c) =>
            \A id \in DOMAIN db'.rows \ DOMAIN db.rows :
              id = db.nextId /\ db'.nextId = db.nextId + 1
       /\ updateProperty_update(c) => DOMAIN db'.rows = DOMAIN db.rows]_vars

\* C18 as stated: under any interleaving with deleteColumn and renameColumn
\* requests, every INSERT or UPDATE that reaches the database names only
\* columns the table has at the moment the statement executes.
C18_WhitelistNeverStale ==
  [][\A c \in Clients :
       ((addProperty_insert(c) \/ updateProperty_update(c)) /\ SomeKeyIsColumn(c)) =>
          SeqRange(LastCall(cl'[c]).keys) \subseteq ColNames(db)]_vars

\* C18 amended: the whitelist of a request is the column set of the table at
\* the moment of its column read, and every INSERT or UPDATE names only
\* columns of that whitelist.  The read and the statement are separate
\* database calls: when a deleteColumn or renameColumn in between has removed
\* a named column, the statement still reaches the database, which rejects
\* it; the request answers 500 with the database's error and no row or column
\* changes.
C18_WhitelistFromRead ==
  [][\A c \in Clients :
       /\ (cl'[c].op = "addProperty" /\ addProperty_columns(c, cl'[c].body))
            => cl'[c].tableColumns = ColNames(db)
       /\ (cl'[c].op = "updateProperty"
             /\ updateProperty_columns(c, cl'[c].id, cl'[c].body))
            => cl'[c].tableColumns = ColNames(db)
       /\ ((addProperty_insert(c) \/ updateProperty_update(c)) /\ SomeKeyIsColumn(c)) =>
            LET q == LastCall(cl'[c])
            IN /\ q.kind \in {"INSERT", "UPDATE"}
               /\ SeqRange(q.keys) \subseteq cl[c].tableColumns
               /\ ~(SeqRange(q.keys) \subseteq ColNames(db)) =>
                    /\ cl'[c].responses = << Response(500, "column does not exist", {}) >>
                    /\ TableOf(db') = TableOf(db)]_vars

C18_Witness ==
  \E c \in Clients :
    /\ Finished(c, "addProperty") \/ Finished(c, "updateProperty")
    /\ Len(cl[c].calls) = 2
    /\ ~(SeqRange(cl[c].calls[2].keys) \subseteq ColNames(db))
    /\ SeqRange(cl[c].calls[2].keys) \subseteq cl[c].tableColumns
    /\ cl[c].responses = << Response(500, "column does not exist", {}) >>

\* C19: no request is handled before the startup reconciliation has finished:
\* every step of a request is taken when ensureTableSchema has resolved and
\* the table exists, and the first request finds every baseline column.
C19_RequestsAfterReconciliation ==
  [][cl' # cl =>
       /\ rec.pc = "done"
       /\ db.exists
       /\ started = 0 => BaselineNames \subseteq ColNames(db)]_vars

====
